---- MODULE Spec2Model ----
(***************************************************************************)
(* Model of src/src/http_client.rs: the DownloadHandler sink, the typed    *)
(* HttpClient<Build> / HttpClient<Perform> state machine, request() and    *)
(* perform().  The curl easy handle, the async transport engine and the    *)
(* file system are collaborators: the model keeps the options the code     *)
(* sets on the easy handle, the bytes of the destination file, and draws   *)
(* every collaborator result (setter failures, I/O failures, the reported  *)
(* status and content type) from small sets.                               *)
(***************************************************************************)
EXTENDS Integers, Sequences, FiniteSets, TLC

(* ------------------------------ bounds -------------------------------- *)

\* chunks the transport delivers to the sink during one transfer
MaxChunks == 2
\* bytes in a request body
MaxBody == 2
\* (name, value) pairs a request's HeaderMap iterates over
MaxHeaders == 2

(* ------------------------------ domains ------------------------------- *)

Handles == {"h1", "h2"}

Methods == {"GET", "POST", "PUT"}

Urls == {"https://example.test/a.bin"}

\* the (name, value) pairs of a HeaderMap. 118 is visible ASCII; 200 is
\* obs-text, legal in a HeaderValue and refused by to_str
HeaderPairs ==
    {[name |-> "accept", value |-> <<118>>],
     [name |-> "x-bin",  value |-> <<118, 200>>],
     [name |-> "x-raw",  value |-> <<200>>]}

BodyBytes == {120, 121}

Chunks == {<<>>, <<65, 66>>, <<67>>}

NoFile == [exists |-> FALSE, bytes |-> <<>>]

FileOf(bs) == [exists |-> TRUE, bytes |-> bs]

InitialFiles == {NoFile, FileOf(<<80>>)}

\* "application/octet-stream"
OctetStream ==
    <<97, 112, 112, 108, 105, 99, 97, 116, 105, 111, 110, 47,
      111, 99, 116, 101, 116, 45, 115, 116, 114, 101, 97, 109>>

\* what Easy2::content_type() yields: None, or Some(text)
NoContentType == [some |-> FALSE, text |-> <<>>]

SomeContentType(t) == [some |-> TRUE, text |-> t]

ContentTypes == {NoContentType, SomeContentType(OctetStream), SomeContentType(<<116, 1>>)}

\* the u32 values Easy2::response_code() may hold
Codes == {0, 200, 1000, 65736}

\* Easy2::response_code(): Result<u32, curl::Error>
CodeResults == {[ok |-> FALSE, code |-> 0]} \cup {[ok |-> TRUE, code |-> c] : c \in Codes}

\* Easy2::content_type(): Result<Option<&str>, curl::Error>
ContentTypeResults ==
    {[ok |-> FALSE, ct |-> NoContentType]} \cup {[ok |-> TRUE, ct |-> c] : c \in ContentTypes}

\* Url::parse(text): Result<Url, url::ParseError>
NotParsed == [tag |-> "None", url |-> ""]

UrlParseResults == {[tag |-> "Ok", url |-> u] : u \in Urls} \cup {[tag |-> "Err", url |-> ""]}

\* std::fs::metadata(path): whether it can be read (it cannot when the file
\* is gone or the path is not accessible)
MetadataResults == BOOLEAN

SeqsUpTo(S, n) == UNION {[1..k -> S] : k \in 0..n}

Bodies == SeqsUpTo(BodyBytes, MaxBody)

\* HeaderMap::iter yields the values of one name next to each other
Grouped(hs) ==
    \A i, j, k \in 1..Len(hs) :
        (i < j /\ j < k /\ hs[i].name = hs[k].name) => hs[j].name = hs[i].name

HeaderMaps == {hs \in SeqsUpTo(HeaderPairs, MaxHeaders) : Grouped(hs)}

Requests == [url : Urls, method : Methods, headers : HeaderMaps, body : Bodies]

NoRequest == [url |-> "", method |-> "", headers |-> <<>>, body |-> <<>>]

NoFault == [step |-> "none", idx |-> 0]

\* the fallible transport calls request() makes for r, one of which the
\* transport may refuse; "append" carries the index of the header whose
\* List::append fails
RequestFaults(r) ==
    {NoFault, [step |-> "url", idx |-> 0], [step |-> "http_headers", idx |-> 0]}
    \cup {[step |-> "append", idx |-> i] : i \in 1..Len(r.headers)}
    \cup (IF r.method = "POST"
          THEN {[step |-> s, idx |-> 0] : s \in {"post", "post_field_size", "post_fields_copy"}}
          ELSE {})

(* ------------------------------- state -------------------------------- *)

VARIABLES
    parse,       \* main: what Url::parse returned
    main,        \* main: where it stands, and the error it returned
    file,        \* contents of each destination path
    initial,     \* contents of that path before the sink was constructed
    sizeSeen,    \* the last existing_file_size call and what it returned
    sink,        \* DownloadHandler: "none", "open", "closed", "error"
    phase,       \* HttpClient: "none", "Build", "Perform", "consumed"
    easy,        \* options set on the Easy2 handle
    req,         \* the HttpRequest given to request()
    reqFault,    \* the transport call set to fail during request(), if any
    reqResult,   \* what request() produced
    transfer,    \* send_request: "idle", "running", "paused", "aborted", "done", "failed"
    streamed,    \* chunks the transport handed to Handler::write, in order
    lastWrite,   \* the last Handler::write call and what it returned
    reported,    \* status and content type the transport reported
    outcome      \* what perform() returned

vars == <<parse, main, file, initial, sizeSeen, sink, phase, easy, req, reqFault, reqResult, transfer,
          streamed, lastWrite, reported, outcome>>

(* ------------------------------- main --------------------------------- *)

MainAt(at, err) == [at |-> at, err |-> err]

\* Url::parse(..).unwrap_or(default): main goes on whatever the parser said
AfterParseUnwrapped(res) == MainAt("built", "")

\* Url::parse(..).map_err(Error::ParseError)?: main goes on to build the
\* request, or returns the parse error
AfterParse(res) ==
    IF res.tag = "Ok" THEN MainAt("built", "") ELSE MainAt("exit", "ParseError")

(* ------------------------- DownloadHandler ---------------------------- *)

\* every handler writes to the one path
SinkPathShared(h) == "h1"

\* the path a handle's DownloadHandler was constructed with and keeps: the
\* handles are given distinct paths, named after them
SinkPath(h) == h

\* the condition of existing_file_size the wrong way round
ExistingFileSizeInverted(f, metaOk) == IF metaOk THEN 0 ELSE Len(f.bytes)

\* DownloadHandler::existing_file_size: the length the metadata gives, 0
\* when the metadata cannot be read
ExistingFileSize(f, metaOk) == IF metaOk THEN Len(f.bytes) ELSE 0

NoSize == [called |-> FALSE, metaOk |-> FALSE, value |-> 0, chunks |-> 0, allOk |-> FALSE]

\* File::create(path): an existing file is cut to nothing
OpenTruncate(f) == FileOf(<<>>)

\* OpenOptions::new().create(true).write(true).append(true).open(path):
\* an absent file is created empty, an existing one is left as it is
OpenAppend(f) == IF f.exists THEN f ELSE FileOf(<<>>)

\* a single write(): the bytes that got through are taken for the whole chunk
WriteOnce(f, data, written) ==
    [file |-> FileOf(f.bytes \o SubSeq(data, 1, written)), ok |-> TRUE]

\* File::write_all(data) on a file opened for append; `written` is the
\* number of bytes that reached the file: Len(data) when every write
\* succeeded, fewer when a write failed after that prefix
WriteAll(f, data, written) ==
    [file |-> FileOf(f.bytes \o SubSeq(data, 1, written)),
     ok   |-> written = Len(data)]

\* Ok(0) in place of Ok(data.len())
WrittenCountZero(data) == 0

\* the count Handler::write reports for a chunk that was written
WrittenCount(data) == Len(data)

WriteOk(n) == [tag |-> "Ok", n |-> n]

WritePause == [tag |-> "Pause", n |-> 0]

\* <DownloadHandler as Handler>::write
HandlerWrite(f, data, written) ==
    LET w == WriteAll(f, data, written)
    IN  [file |-> w.file,
         ret  |-> IF w.ok THEN WriteOk(WrittenCount(data)) ELSE WritePause]

\* what the transport does with the value its write callback returned: the
\* full count continues the transfer, Pause (CURL_WRITEFUNC_PAUSE) pauses it
\* until it is unpaused, any other count aborts it with a write error
AfterWrite(ret, data) ==
    IF ret.tag = "Pause" THEN "paused"
    ELSE IF ret.n = Len(data) THEN "running"
    ELSE "aborted"

NoWrite == [called |-> FALSE, data |-> <<>>, before |-> <<>>, ret |-> WritePause]

(* ----------------------------- Easy2 ---------------------------------- *)

NoList == [set |-> FALSE, lines |-> <<>>]

\* a freshly created easy handle: no option set
FreshEasy ==
    [url |-> "", headers |-> NoList, post |-> FALSE,
     sizeSet |-> FALSE, postFieldSize |-> 0,
     bodySet |-> FALSE, postFields |-> <<>>]

(* --------------------- HttpClient<Build>::request --------------------- *)

\* Url::to_string: a Url keeps its serialization, which is what it prints
UrlToString(u) == u

\* http's is_visible_ascii: 32..126, or tab
IsVisibleAscii(b) == (b >= 32 /\ b < 127) \/ b = 9

\* a lossy conversion that never refuses a value
ToStrLossy(value) == TRUE

\* HeaderValue::to_str succeeds when every byte is visible ASCII
ToStrOk(value) == \A i \in 1..Len(value) : IsVisibleAscii(value[i])

\* format!("{}: {}", name, value): the pieces of the line, in order
HeaderLine(name, value) == <<name, ": ", value>>

ReqOk == [tag |-> "Ok", kind |-> "", name |-> "", bytes |-> <<>>]

ReqErr(kind) == [tag |-> "Err", kind |-> kind, name |-> "", bytes |-> <<>>]

ReqPanic == [tag |-> "Panic", kind |-> "", name |-> "", bytes |-> <<>>]

NoResult == [tag |-> "None", kind |-> "", name |-> "", bytes |-> <<>>]

\* the error of a header value to_str refuses:
\* Error::Other(format!("invalid {} header value {:?}", name, value.as_bytes()))
InvalidHeaderError(name, value) ==
    [tag |-> "Err", kind |-> "Other", name |-> name, bytes |-> value]

\* request.headers.iter().try_for_each(...): the lines appended to the
\* curl list from header i on, stopping at the first failure
RECURSIVE AppendHeaders(_, _, _, _)
AppendHeaders(hs, i, lines, fault) ==
    IF i > Len(hs) THEN [res |-> ReqOk, lines |-> lines]
    ELSE IF ~ToStrOk(hs[i].value)
        THEN [res |-> InvalidHeaderError(hs[i].name, hs[i].value), lines |-> lines]
    ELSE IF fault.step = "append" /\ fault.idx = i
        THEN [res |-> ReqErr("Curl"), lines |-> lines]
    ELSE AppendHeaders(hs, i + 1, Append(lines, HeaderLine(hs[i].name, hs[i].value)), fault)

\* the length of the body as a C string, terminator counted
PostFieldSizeWithNul(body) == Len(body) + 1

\* request.body.len() as u64
PostFieldSize(body) == Len(body)

\* the bytes post_fields_copy is given: request.body.as_slice()
PostFields(body) == body

\* the else branch asserting the wrong method: assert_eq!(.., Method::POST)
ConfigureMethodAssertPost(e, r, fault) ==
    IF r.method = "POST"
    THEN [res |-> ReqOk,
          easy |-> [e EXCEPT !.post = TRUE, !.sizeSet = TRUE,
                             !.postFieldSize = Len(r.body),
                             !.bodySet = TRUE, !.postFields = r.body]]
    ELSE [res |-> ReqPanic, easy |-> e]

\* the else branch also asserting that a GET carries no body
ConfigureMethodAssertBody(e, r, fault) ==
    IF r.method = "POST"
    THEN [res |-> ReqOk,
          easy |-> [e EXCEPT !.post = TRUE, !.sizeSet = TRUE,
                             !.postFieldSize = Len(r.body),
                             !.bodySet = TRUE, !.postFields = r.body]]
    ELSE IF r.method # "GET" \/ r.body # <<>> THEN [res |-> ReqPanic, easy |-> e]
    ELSE [res |-> ReqOk, easy |-> e]

\* no assertion in the else branch: every other method goes the way of GET
ConfigureMethodNoAssert(e, r, fault) ==
    IF r.method = "POST"
    THEN [res |-> ReqOk,
          easy |-> [e EXCEPT !.post = TRUE, !.sizeSet = TRUE,
                             !.postFieldSize = Len(r.body),
                             !.bodySet = TRUE, !.postFields = r.body]]
    ELSE [res |-> ReqOk, easy |-> e]

\* the body options set before the branch, whatever the method
ConfigureMethodAlwaysBody(e, r, fault) ==
    LET e3 == [e EXCEPT !.post = TRUE, !.sizeSet = TRUE,
                        !.postFieldSize = Len(r.body),
                        !.bodySet = TRUE, !.postFields = r.body] IN
    IF r.method \in {"POST", "GET"} THEN [res |-> ReqOk, easy |-> e3]
    ELSE [res |-> ReqPanic, easy |-> e3]

\* the branch on the method, lines 175-191
ConfigureMethod(e, r, fault) ==
    IF r.method = "POST" THEN
        IF fault.step = "post" THEN [res |-> ReqErr("Curl"), easy |-> e]
        ELSE LET e1 == [e EXCEPT !.post = TRUE] IN
        IF fault.step = "post_field_size" THEN [res |-> ReqErr("Curl"), easy |-> e1]
        ELSE LET e2 == [e1 EXCEPT !.sizeSet = TRUE,
                                   !.postFieldSize = PostFieldSize(r.body)] IN
        IF fault.step = "post_fields_copy" THEN [res |-> ReqErr("Curl"), easy |-> e2]
        ELSE [res  |-> ReqOk,
              easy |-> [e2 EXCEPT !.bodySet = TRUE, !.postFields = PostFields(r.body)]]
    ELSE IF r.method # "GET" THEN [res |-> ReqPanic, easy |-> e]
    ELSE [res |-> ReqOk, easy |-> e]

\* request(): the result and the options left on the easy handle
RequestResult(e, r, fault) ==
    IF fault.step = "url" THEN [res |-> ReqErr("Curl"), easy |-> e]
    ELSE LET e1 == [e EXCEPT !.url = UrlToString(r.url)]
             hl == AppendHeaders(r.headers, 1, <<>>, fault) IN
    IF hl.res.tag # "Ok" THEN [res |-> hl.res, easy |-> e1]
    ELSE IF fault.step = "http_headers" THEN [res |-> ReqErr("Curl"), easy |-> e1]
    ELSE ConfigureMethod([e1 EXCEPT !.headers = [set |-> TRUE, lines |-> hl.lines]],
                         r, fault)

\* the handle is handed on whatever the steps returned
PhaseAfterRequestUnchecked(res) == "Perform"

\* request(mut self, ..) takes the Build handle by value: Ok wraps its parts
\* in HttpClient<Perform>, an error or a panic drops them
PhaseAfterRequest(res) == IF res.tag = "Ok" THEN "Perform" ELSE "consumed"

(* -------------------- HttpClient<Perform>::perform -------------------- *)

\* response_code()? as u16
AsU16(code) == code % 65536

\* StatusCode::from_u16 accepts 100..999
StatusOk(n) == n >= 100 /\ n < 1000

\* HeaderValue::from_str accepts bytes >= 32 other than 127, and tab
IsValidValueByte(b) == (b >= 32 /\ b # 127) \/ b = 9

FromStrOk(text) == \A i \in 1..Len(text) : IsValidValueByte(text[i])

\* HeaderMap::new() whatever content type was reported
ResponseHeadersDropped(ct) == <<>>

\* the HeaderMap perform() rebuilds: the content type alone, or nothing
ResponseHeaders(ct) ==
    IF ct.some THEN <<[name |-> "content-type", value |-> ct.text]>> ELSE <<>>

\* let data = Vec::new()
ResponseBody == <<>>

NoOutcome == [tag |-> "None", kind |-> "", status |-> 0, headers |-> <<>>, body |-> <<>>]

PerformErr(kind) ==
    [tag |-> "Err", kind |-> kind, status |-> 0, headers |-> <<>>, body |-> <<>>]

\* a failed send_request mapped to Error::Curl
SendRequestErrorAsCurl == PerformErr("Curl")

\* the error perform() maps a failed send_request to
SendRequestError == PerformErr("AsyncCurl")

\* perform() after send_request returned the populated easy handle
PerformResult(codeRes, ctRes) ==
    IF ~codeRes.ok THEN PerformErr("Curl")
    ELSE LET status == AsU16(codeRes.code) IN
    IF ~ctRes.ok THEN PerformErr("Curl")
    ELSE IF ctRes.ct.some /\ ~FromStrOk(ctRes.ct.text) THEN PerformErr("Http")
    ELSE IF ~StatusOk(status) THEN PerformErr("Http")
    ELSE [tag |-> "Response", kind |-> "", status |-> status,
          headers |-> ResponseHeaders(ctRes.ct), body |-> ResponseBody]

\* perform(&self): the Perform handle stays usable
PhaseAfterPerformBorrowed == "Perform"

\* perform(self) takes the Perform handle by value
PhaseAfterPerform == "consumed"

NotRead == [read |-> FALSE, ok |-> FALSE, code |-> 0, ct |-> NoContentType]

\* what perform() read back: the status, and then (only when that
\* succeeded) the content type
NoReport == [given |-> FALSE, code |-> NotRead, ct |-> NotRead]

ReportOf(codeRes, ctRes) ==
    [given |-> TRUE,
     code  |-> [read |-> TRUE, ok |-> codeRes.ok, code |-> codeRes.code, ct |-> NoContentType],
     ct    |-> IF codeRes.ok
               THEN [read |-> TRUE, ok |-> ctRes.ok, code |-> 0, ct |-> ctRes.ct]
               ELSE NotRead]

(* ------------------------------ actions ------------------------------- *)

\* the handles a caller drives in Spec; the others stay unconstructed
Active == {"h1"}

\* the state before main has run for the handles of A
InitFor(A) ==
    /\ parse = [h \in Handles |-> NotParsed]
    /\ main = [h \in Handles |-> MainAt("start", "")]
    /\ sizeSeen = [h \in Handles |-> NoSize]
    /\ file \in {f \in [Handles -> InitialFiles] :
                    \A h \in Handles \ A : f[h] = NoFile}
    /\ initial = file
    /\ sink = [h \in Handles |-> "none"]
    /\ phase = [h \in Handles |-> "none"]
    /\ easy = [h \in Handles |-> FreshEasy]
    /\ req = [h \in Handles |-> NoRequest]
    /\ reqFault = [h \in Handles |-> NoFault]
    /\ reqResult = [h \in Handles |-> NoResult]
    /\ transfer = [h \in Handles |-> "idle"]
    /\ streamed = [h \in Handles |-> <<>>]
    /\ lastWrite = [h \in Handles |-> NoWrite]
    /\ reported = [h \in Handles |-> NoReport]
    /\ outcome = [h \in Handles |-> NoOutcome]

Init == InitFor(Active)

\* main: Url::parse(..).map_err(Error::ParseError)?
ParseUrl(h, res) ==
    /\ main[h].at = "start"
    /\ parse' = [parse EXCEPT ![h] = res]
    /\ main' = [main EXCEPT ![h] = AfterParse(res)]
    /\ UNCHANGED <<file, initial, sizeSeen, sink, phase, easy, req, reqFault, reqResult,
                   transfer, streamed, lastWrite, reported, outcome>>

\* DownloadHandler::new(path); `ok` is whether the open succeeds
DownloadHandlerNew(h, ok) ==
    /\ main[h].at = "built"
    /\ sink[h] = "none"
    /\ IF ok
       THEN /\ file' = [file EXCEPT ![SinkPath(h)] = OpenAppend(file[SinkPath(h)])]
            /\ sink' = [sink EXCEPT ![h] = "open"]
            /\ UNCHANGED main
       ELSE /\ sink' = [sink EXCEPT ![h] = "error"]
            /\ main' = [main EXCEPT ![h] = MainAt("exit", "IOError")]
            /\ UNCHANGED file
    /\ UNCHANGED <<parse, sizeSeen, initial, phase, easy, req, reqFault, reqResult, transfer, streamed,
                   lastWrite, reported, outcome>>

\* HttpClient::<Build>::new(curl, Easy2::new(handler))
HttpClientNew(h) ==
    /\ sink[h] = "open"
    /\ phase[h] = "none"
    /\ phase' = [phase EXCEPT ![h] = "Build"]
    /\ easy' = [easy EXCEPT ![h] = FreshEasy]
    /\ UNCHANGED <<parse, main, sizeSeen, file, initial, sink, req, reqFault, reqResult, transfer, streamed,
                   lastWrite, reported, outcome>>

\* HttpClient<Build>::request(self, r)
Request(h, r, fault) ==
    /\ phase[h] = "Build"
    /\ r.url = parse[h].url
    /\ LET rr == RequestResult(easy[h], r, fault) IN
        /\ easy' = [easy EXCEPT ![h] = rr.easy]
        /\ reqResult' = [reqResult EXCEPT ![h] = rr.res]
        /\ phase' = [phase EXCEPT ![h] = PhaseAfterRequest(rr.res)]
        /\ sink' = [sink EXCEPT ![h] = IF PhaseAfterRequest(rr.res) = "consumed"
                                       THEN "closed" ELSE @]
    /\ req' = [req EXCEPT ![h] = r]
    /\ reqFault' = [reqFault EXCEPT ![h] = fault]
    /\ UNCHANGED <<parse, main, sizeSeen, file, initial, transfer, streamed, lastWrite, reported, outcome>>

\* HttpClient<Perform>::perform(self) up to the await on send_request
Perform(h) ==
    /\ phase[h] = "Perform"
    /\ phase' = [phase EXCEPT ![h] = PhaseAfterPerform]
    /\ transfer' = [transfer EXCEPT ![h] = "running"]
    /\ UNCHANGED <<parse, main, sizeSeen, file, initial, sink, easy, req, reqFault, reqResult, streamed,
                   lastWrite, reported, outcome>>

\* the transport hands one chunk of the response body to Handler::write
DeliverChunk(h, data, written) ==
    /\ transfer[h] = "running"
    /\ Len(streamed[h]) < MaxChunks
    /\ LET w == HandlerWrite(file[SinkPath(h)], data, written) IN
        /\ file' = [file EXCEPT ![SinkPath(h)] = w.file]
        /\ lastWrite' = [lastWrite EXCEPT ![h] =
                [called |-> TRUE, data |-> data, before |-> file[SinkPath(h)].bytes,
                 ret |-> w.ret]]
        /\ transfer' = [transfer EXCEPT ![h] = AfterWrite(w.ret, data)]
    /\ streamed' = [streamed EXCEPT ![h] = Append(@, data)]
    /\ UNCHANGED <<parse, main, sizeSeen, initial, sink, phase, easy, req, reqFault, reqResult, reported, outcome>>

\* send_request returns Ok(easy); perform() reads the status and the content
\* type back and returns
TransportComplete(h, codeRes, ctRes) ==
    /\ transfer[h] = "running"
    /\ transfer' = [transfer EXCEPT ![h] = "done"]
    /\ reported' = [reported EXCEPT ![h] = ReportOf(codeRes, ctRes)]
    /\ outcome' = [outcome EXCEPT ![h] = PerformResult(codeRes, ctRes)]
    /\ sink' = [sink EXCEPT ![h] = "closed"]
    /\ UNCHANGED <<parse, main, sizeSeen, file, initial, phase, easy, req, reqFault, reqResult, streamed, lastWrite>>

\* send_request returns Err: the connection failed, or the transport
\* aborted the transfer after a short write count
TransportFail(h) ==
    /\ transfer[h] \in {"running", "aborted"}
    /\ transfer' = [transfer EXCEPT ![h] = "failed"]
    /\ outcome' = [outcome EXCEPT ![h] = SendRequestError]
    /\ sink' = [sink EXCEPT ![h] = "closed"]
    /\ UNCHANGED <<parse, main, sizeSeen, file, initial, phase, easy, req, reqFault, reqResult, streamed,
                   lastWrite, reported>>

\* existing_file_size(&self) on the handler of h, which reads the metadata
\* of the handler's path whoever holds the handler at that time
QuerySize(h, metaOk) ==
    /\ sink[h] = "open"
    /\ sizeSeen' = [sizeSeen EXCEPT ![h] =
            [called |-> TRUE, metaOk |-> metaOk,
             value  |-> ExistingFileSize(file[SinkPath(h)], metaOk),
             chunks |-> Len(streamed[h]),
             allOk  |-> (lastWrite[h].called => lastWrite[h].ret.tag = "Ok")]]
    /\ UNCHANGED <<parse, main, file, initial, sink, phase, easy, req, reqFault, reqResult,
                   transfer, streamed, lastWrite, reported, outcome>>

\* the guards stand before the quantifiers so that the inputs are enumerated
\* only where the operation can run
Next ==
    \E h \in Active :
        \/ \E res \in UrlParseResults : ParseUrl(h, res)
        \/ \E ok \in BOOLEAN : DownloadHandlerNew(h, ok)
        \/ HttpClientNew(h)
        \/ /\ phase[h] = "Build"
           /\ \E r \in Requests : \E fault \in RequestFaults(r) : Request(h, r, fault)
        \/ Perform(h)
        \/ /\ transfer[h] = "running"
           /\ \E data \in Chunks : \E written \in 0..Len(data) :
                 DeliverChunk(h, data, written)
        \/ /\ transfer[h] = "running"
           /\ \E codeRes \in CodeResults, ctRes \in ContentTypeResults :
                 TransportComplete(h, codeRes, ctRes)
        \/ TransportFail(h)

Spec == Init /\ [][Next]_vars

\* the caller of Spec, who may also ask the sink for the size of its file
\* at any time the sink is open
SizeNext ==
    \/ Next
    \/ \E h \in Active :
          /\ sink[h] = "open"
          /\ \E metaOk \in MetadataResults : QuerySize(h, metaOk)

SizeSpec == Init /\ [][SizeNext]_vars

\* two callers, each driving its own handle with its own sink on its own
\* path, their steps interleaved in every order. Each sends a GET without
\* headers; the transport streams 41 42 to the first and 43 to the second.
PairRequests == {r \in Requests : r.method = "GET" /\ r.headers = <<>> /\ r.body = <<>>}

PairChunks(h) == IF h = "h1" THEN {<<65, 66>>} ELSE {<<67>>}

PairCodeResults == {[ok |-> TRUE, code |-> 200], [ok |-> TRUE, code |-> 0]}

PairContentTypeResults ==
    {[ok |-> TRUE, ct |-> NoContentType], [ok |-> TRUE, ct |-> SomeContentType(OctetStream)]}

PairNext ==
    \E h \in Handles :
        \/ \E res \in UrlParseResults : ParseUrl(h, res)
        \/ \E ok \in BOOLEAN : DownloadHandlerNew(h, ok)
        \/ HttpClientNew(h)
        \/ /\ phase[h] = "Build"
           /\ \E r \in PairRequests : \E fault \in RequestFaults(r) : Request(h, r, fault)
        \/ Perform(h)
        \/ /\ transfer[h] = "running"
           /\ \E data \in PairChunks(h) : \E written \in 0..Len(data) :
                 DeliverChunk(h, data, written)
        \/ /\ transfer[h] = "running"
           /\ \E codeRes \in PairCodeResults, ctRes \in PairContentTypeResults :
                 TransportComplete(h, codeRes, ctRes)
        \/ TransportFail(h)

PairSpec == InitFor(Handles) /\ [][PairNext]_vars

(* ------------------------------ helpers ------------------------------- *)

\* c1 ++ c2 ++ ... ++ cN
RECURSIVE Concat(_)
Concat(cs) == IF cs = <<>> THEN <<>> ELSE Head(cs) \o Concat(Tail(cs))

Front(cs) == SubSeq(cs, 1, Len(cs) - 1)

Requested(h) == req[h] # NoRequest

\* a byte a header line cannot carry as text: a control character other
\* than tab, DEL, or a byte outside ASCII
NonRepresentable(b) == (b < 32 /\ b # 9) \/ b >= 127

Representable(value) == \A i \in 1..Len(value) : ~NonRepresentable(value[i])

ValidHeaders(hs) == \A i \in 1..Len(hs) : Representable(hs[i].value)

\* the index of the first header whose value is not representable (0: none)
FirstInvalid(hs) ==
    IF ValidHeaders(hs) THEN 0
    ELSE CHOOSE i \in 1..Len(hs) :
            /\ ~Representable(hs[i].value)
            /\ \A j \in 1..(i - 1) : Representable(hs[j].value)

\* the fault is one request() runs into before it reaches header i
FaultBeforeHeader(fault, i) ==
    fault.step = "url" \/ (fault.step = "append" /\ fault.idx < i)

(* ------------------------------- C1 ----------------------------------- *)

\* C1: for every handle, perform starts only on a handle in the Perform
\* phase that a successful request() produced; the handle enters Perform at
\* most once, from Build, by the only request() run on it; it never goes
\* back to Build; and once perform has returned, nothing of the handle, its
\* configuration or its transfer changes again.
C1_TypeState ==
    [][\A h \in Handles :
        /\ (transfer[h] = "idle" /\ transfer'[h] # "idle")
              => (phase[h] = "Perform" /\ reqResult[h].tag = "Ok")
        /\ (phase[h] # "Perform" /\ phase'[h] = "Perform")
              => (phase[h] = "Build" /\ ~Requested(h))
        /\ (req'[h] # req[h] \/ reqResult'[h] # reqResult[h])
              => (phase[h] = "Build" /\ ~Requested(h))
        /\ phase[h] \in {"Perform", "consumed"} => phase'[h] # "Build"
        /\ transfer[h] # "idle" => transfer'[h] # "idle"
        /\ outcome[h] # NoOutcome
              => /\ phase'[h] = phase[h] /\ easy'[h] = easy[h]
                 /\ req'[h] = req[h] /\ reqResult'[h] = reqResult[h]
                 /\ transfer'[h] = transfer[h] /\ outcome'[h] = outcome[h]
      ]_vars

\* perform has returned a Response on a handle that went Build -> Perform
C1_Witness ==
    /\ outcome["h1"].tag = "Response"
    /\ reqResult["h1"].tag = "Ok"
    /\ phase["h1"] = "consumed"

(* ------------------------------- C2 ----------------------------------- *)

AllWritesOk(h) == lastWrite[h].called => lastWrite[h].ret.tag = "Ok"

\* C2 as stated: for a sink on a path that held no file, after any accept
\* calls the file is the concatenation of their chunks.
C2_AnyCalls ==
    \A h \in Handles :
        (initial[h] = NoFile /\ sink[h] \in {"open", "closed"})
            => file[h].bytes = Concat(streamed[h])

\* C2 (amended): for a sink on a path that held no file, after N accept
\* calls that all returned success the file is c1 ++ ... ++ cN; a call that
\* failed is the last one, and the file then holds the chunks before it and
\* a proper prefix of its chunk.
C2_SuccessfulCalls ==
    \A h \in Handles :
        (initial[h] = NoFile /\ sink[h] \in {"open", "closed"})
            => IF AllWritesOk(h)
               THEN file[h].bytes = Concat(streamed[h])
               ELSE LET last == streamed[h][Len(streamed[h])] IN
                    \E k \in 0..(Len(last) - 1) :
                        file[h].bytes = Concat(Front(streamed[h])) \o SubSeq(last, 1, k)

\* two chunks were accepted by a sink that created its file
C2_Witness ==
    /\ initial["h1"] = NoFile
    /\ streamed["h1"] = <<<<65, 66>>, <<67>>>>
    /\ AllWritesOk("h1")

(* ------------------------------- C3 ----------------------------------- *)

ValidGetNoBody(h) ==
    /\ Requested(h)
    /\ req[h].method = "GET"
    /\ req[h].body = <<>>
    /\ ValidHeaders(req[h].headers)

\* C3 as stated: every valid GET request with an empty body succeeds and
\* yields a Perform-phase handle.
C3_AlwaysSucceeds ==
    \A h \in Handles :
        ValidGetNoBody(h)
            => /\ reqResult[h].tag = "Ok"
               /\ transfer[h] = "idle" => phase[h] = "Perform"

\* C3 (amended): a valid GET request with an empty body succeeds and yields
\* a Perform-phase handle when the transport accepts the URL, every header
\* line and the header list; when the transport refuses one of them,
\* request() returns a Curl error and no Perform-phase handle.
C3_SucceedsUnlessTransportRefuses ==
    \A h \in Handles :
        ValidGetNoBody(h)
            => IF reqFault[h] = NoFault
               THEN /\ reqResult[h] = ReqOk
                    /\ transfer[h] = "idle" => phase[h] = "Perform"
               ELSE /\ reqResult[h] = ReqErr("Curl")
                    /\ phase[h] = "consumed"
                    /\ transfer[h] = "idle"

\* a GET with a header and no body was turned into a Perform-phase handle
C3_Witness ==
    /\ ValidGetNoBody("h1")
    /\ Len(req["h1"].headers) > 0
    /\ reqResult["h1"].tag = "Ok"
    /\ phase["h1"] = "Perform"

(* ------------------------------- C4 ----------------------------------- *)

\* C4: after a successful request() with method POST the easy handle is
\* marked as a POST, its declared body length is the length of the request
\* body, and the body attached is the request body.
C4_PostBody ==
    \A h \in Handles :
        (Requested(h) /\ req[h].method = "POST" /\ reqResult[h].tag = "Ok")
            => /\ easy[h].post
               /\ easy[h].sizeSet /\ easy[h].postFieldSize = Len(req[h].body)
               /\ easy[h].bodySet /\ easy[h].postFields = req[h].body

\* a POST with a two-byte body was configured
C4_Witness ==
    /\ req["h1"].method = "POST"
    /\ req["h1"].body = <<120, 121>>
    /\ reqResult["h1"].tag = "Ok"

(* ------------------------------- C5 ----------------------------------- *)

\* C5 as stated: a request with a header value to_str refuses fails with the
\* HTTP-spec error kind naming that header, and no header list is installed.
C5_HttpKind ==
    \A h \in Handles :
        (Requested(h) /\ ~ValidHeaders(req[h].headers))
            => /\ reqResult[h].tag = "Err"
               /\ reqResult[h].kind = "Http"
               /\ reqResult[h].name = req[h].headers[FirstInvalid(req[h].headers)].name
               /\ ~easy[h].headers.set

\* C5 (amended): a request with a header value to_str refuses fails and no
\* header list is installed on the easy handle; unless the transport
\* refused the URL or an earlier header line first (a Curl error), the
\* error is of the Other kind and carries the name and the bytes of the
\* first such header in iteration order.
C5_OtherKind ==
    \A h \in Handles :
        (Requested(h) /\ ~ValidHeaders(req[h].headers))
            => LET i == FirstInvalid(req[h].headers) IN
               /\ ~easy[h].headers.set
               /\ phase[h] = "consumed"
               /\ reqResult[h] =
                    IF FaultBeforeHeader(reqFault[h], i)
                    THEN ReqErr("Curl")
                    ELSE InvalidHeaderError(req[h].headers[i].name,
                                            req[h].headers[i].value)

\* request() refused the second header after translating the first
C5_Witness ==
    /\ Len(req["h1"].headers) = 2
    /\ FirstInvalid(req["h1"].headers) = 2
    /\ reqResult["h1"].kind = "Other"
    /\ reqResult["h1"].name = "x-raw"

(* ------------------------------- C6 ----------------------------------- *)

\* what the file holds once the sink is open and the chunks were written
Expected(h) == OpenAppend(initial[h]).bytes \o Concat(streamed[h])

\* the scenario of C6: GET, no headers, no body, a fresh destination, the
\* chunks 41 42 and 43, then status 200 and application/octet-stream
C6_ScenarioRun(h) ==
    /\ req[h].method = "GET" /\ req[h].headers = <<>> /\ req[h].body = <<>>
    /\ initial[h] = NoFile
    /\ streamed[h] = <<<<65, 66>>, <<67>>>>
    /\ transfer[h] = "done"
    /\ reported[h].code.ok /\ reported[h].code.code = 200
    /\ reported[h].ct.ok /\ reported[h].ct.ct = SomeContentType(OctetStream)

\* the scenario alone: the Response has status 200 and the content type,
\* and the file holds 41 42 43
C6_Scenario ==
    \A h \in Handles :
        C6_ScenarioRun(h)
            => /\ outcome[h].tag = "Response"
               /\ outcome[h].status = 200
               /\ outcome[h].headers = <<[name |-> "content-type", value |-> OctetStream]>>
               /\ file[h].bytes = <<65, 66, 67>>

\* C6: in the scenario perform returns status 200, the content type
\* application/octet-stream and the file holds 41 42 43; and every Response
\* perform returns carries the status and the content type the transport
\* reported, with the file holding the streamed chunks in order.
C6_EndToEnd ==
    /\ C6_Scenario
    /\ \A h \in Handles :
        outcome[h].tag = "Response"
            => /\ outcome[h].status = reported[h].code.code
               /\ reported[h].ct.ct.some
                    => outcome[h].headers =
                         <<[name |-> "content-type", value |-> reported[h].ct.ct.text]>>
               /\ file[h].bytes = Expected(h)

(* ------------------------------- C7 ----------------------------------- *)

WriteFailed(h) == lastWrite[h].called /\ lastWrite[h].ret.tag = "Pause"

\* C8: when a write of the sink fails, the transfer in flight is aborted,
\* and what perform returns for it is an error of the I/O kind.
C8_WriteFailureAborts ==
    \A h \in Handles :
        WriteFailed(h)
            => /\ transfer[h] \in {"aborted", "failed"}
               /\ outcome[h] # NoOutcome => outcome[h] = PerformErr("IOError")

(* ------------------------------- C9 ----------------------------------- *)

\* C9: a write call that reports success reports the length of its chunk,
\* and the file then holds what it held before the call followed by the
\* whole chunk.
C9_FullCount ==
    \A h \in Handles :
        (lastWrite[h].called /\ lastWrite[h].ret.tag = "Ok")
            => /\ lastWrite[h].ret.n = Len(lastWrite[h].data)
               /\ file[h].bytes = lastWrite[h].before \o lastWrite[h].data

\* a two-byte chunk was accepted after another chunk
C9_Witness ==
    /\ lastWrite["h1"].called
    /\ lastWrite["h1"].ret = WriteOk(2)
    /\ lastWrite["h1"].before = <<80, 67>>

(* ------------------------------- C10 ---------------------------------- *)

GetWithBody(h) == Requested(h) /\ req[h].method = "GET" /\ req[h].body # <<>>

C11_FailedRequest ==
    \A h \in Handles :
        /\ (Requested(h) /\ (reqFault[h] # NoFault \/ ~ValidHeaders(req[h].headers)))
              => reqResult[h].tag = "Err"
        /\ reqResult[h].tag = "Err"
              => /\ phase[h] = "consumed"
                 /\ sink[h] = "closed"
                 /\ transfer[h] = "idle"
                 /\ streamed[h] = <<>>
                 /\ outcome[h] = NoOutcome

\* attaching the body failed after the handle was marked POST and given
\* the body length
C11_Witness ==
    /\ reqFault["h1"].step = "post_fields_copy"
    /\ reqResult["h1"] = ReqErr("Curl")
    /\ easy["h1"].post /\ easy["h1"].sizeSet /\ ~easy["h1"].bodySet
    /\ phase["h1"] = "consumed"

(* ------------------------------- C12 ---------------------------------- *)

\* C12: when Url::parse refuses the string, main returns the URL-parse
\* error and nothing else has run or runs: no sink (the destination is as
\* it was, no file created), no client handle, no request, no transfer.
C12_ParseErrorFirst ==
    \A h \in Handles :
        parse[h].tag = "Err"
            => /\ main[h] = MainAt("exit", "ParseError")
               /\ sink[h] = "none"
               /\ file[h] = initial[h]
               /\ phase[h] = "none"
               /\ ~Requested(h)
               /\ transfer[h] = "idle"
               /\ outcome[h] = NoOutcome

\* the parser refused the string and main returned
C12_Witness ==
    /\ parse["h1"].tag = "Err"
    /\ main["h1"].at = "exit"
    /\ initial["h1"] = NoFile

(* ------------------------------- C13 ---------------------------------- *)

OtherMethod(h) == Requested(h) /\ req[h].method \notin {"GET", "POST"}

\* the lines request() builds from a header map whose values are all text
LinesOf(hs) == [i \in 1..Len(hs) |-> <<hs[i].name, ": ", hs[i].value>>]

UrlAndHeadersSet(h) ==
    /\ easy[h].url = req[h].url
    /\ easy[h].headers = [set |-> TRUE, lines |-> LinesOf(req[h].headers)]

\* C14 as stated: request() with a method other than GET and POST ends in
\* the assertion failure, with the URL and the header list already set.
C14_AlwaysPanics ==
    \A h \in Handles :
        OtherMethod(h) => (reqResult[h].tag = "Panic" /\ UrlAndHeadersSet(h))

\* C14 (amended): request() with a method other than GET and POST never
\* yields a Perform-phase handle; when every header value is representable
\* and the transport accepts the URL, the header lines and the header list,
\* it ends in the assertion failure, which happens only after the URL and
\* the header list were set on the easy handle; otherwise it returns the
\* error of the step that failed.
C14_PanicsAfterHeaders ==
    \A h \in Handles :
        OtherMethod(h)
            => /\ reqResult[h].tag \in {"Panic", "Err"}
               /\ phase[h] = "consumed"
               /\ transfer[h] = "idle"
               /\ reqResult[h].tag = "Panic"
                    <=> (ValidHeaders(req[h].headers) /\ reqFault[h] = NoFault)
               /\ reqResult[h].tag = "Panic" => UrlAndHeadersSet(h)

\* a PUT with a header hit the assertion
C14_Witness ==
    /\ req["h1"].method = "PUT"
    /\ Len(req["h1"].headers) = 1
    /\ reqResult["h1"] = ReqPanic
    /\ easy["h1"].headers.set

(* ------------------------------- C15 ---------------------------------- *)

\* a status code HTTP allows: three digits, 100 to 999
LegalStatus(c) == c >= 100 /\ c <= 999

StatusRead(h) == reported[h].given /\ reported[h].code.ok

\* C15: perform returns a Response only for a reported status code that is
\* a legal HTTP status, and the Response then carries that code; for every
\* other reported code perform returns an error of the HTTP-spec kind.
C15_StatusChecked ==
    \A h \in Handles :
        /\ outcome[h].tag = "Response"
              => /\ StatusRead(h)
                 /\ LegalStatus(reported[h].code.code)
                 /\ outcome[h].status = reported[h].code.code
        /\ (StatusRead(h) /\ reported[h].ct.ok /\ ~LegalStatus(reported[h].code.code))
              => outcome[h] = PerformErr("Http")

(* ------------------------------- C16 ---------------------------------- *)

\* perform was called on h and has not returned
Suspended(h) == transfer[h] \in {"running", "paused", "aborted"}

\* C16: a perform that has not returned is never stuck: the transport can
\* still complete or fail the exchange, which makes perform return (so that
\* under a fair transport it does return), also after a write of the sink
\* failed.
C16_NeverStuck ==
    \A h \in Handles :
        Suspended(h)
            => ENABLED (\/ \E codeRes \in CodeResults, ctRes \in ContentTypeResults :
                              TransportComplete(h, codeRes, ctRes)
                        \/ TransportFail(h))

(* ------------------------------- C17 ---------------------------------- *)

\* everything that belongs to handle h: its part of main, its destination
\* file, its sink, its client handle and its transfer
Local(h) ==
    <<parse[h], main[h], file[h], initial[h], sizeSeen[h], sink[h], phase[h],
      easy[h], req[h], reqFault[h], reqResult[h], transfer[h], streamed[h],
      lastWrite[h], reported[h], outcome[h]>>

\* the file of h holds, after what it held at first, the chunks streamed to
\* h in order (and of a chunk whose write failed, a proper prefix)
OwnChunksOnly(h) ==
    /\ transfer[h] = "done" => file[h].bytes = Expected(h)
    /\ sink[h] \in {"open", "closed"}
        => IF AllWritesOk(h) THEN file[h].bytes = Expected(h)
           ELSE LET last == streamed[h][Len(streamed[h])] IN
                \E k \in 0..(Len(last) - 1) :
                    file[h].bytes = OpenAppend(initial[h]).bytes
                                      \o Concat(Front(streamed[h])) \o SubSeq(last, 1, k)

\* what perform returned for h is decided by what the transport did for h
OwnOutcome(h) ==
    /\ transfer[h] = "failed" => outcome[h] = PerformErr("AsyncCurl")
    /\ transfer[h] = "done" =>
          \/ outcome[h].tag = "Err"
          \/ /\ outcome[h].status = reported[h].code.code % 65536
             /\ outcome[h].headers = ResponseHeaders(reported[h].ct.ct)
    /\ transfer[h] \notin {"failed", "done"} => outcome[h] = NoOutcome

\* C17: with two handles on distinct paths, under every interleaving of
\* their steps, each file holds exactly the chunks streamed for its own
\* request in arrival order, each perform outcome is the one of its own
\* transfer, and no step of one handle changes anything of the other.
C17_Independent ==
    /\ [](\A h \in Handles : OwnChunksOnly(h) /\ OwnOutcome(h))
    /\ [][\A h, g \in Handles :
            (h # g /\ Local(h)' # Local(h)) => Local(g)' = Local(g)]_vars

\* both transfers are in flight, each with a chunk already in its file
C17_Witness ==
    /\ transfer["h1"] = "running" /\ file["h1"].bytes = <<65, 66>>
    /\ transfer["h2"] = "running" /\ file["h2"].bytes = <<80, 67>>

(* ------------------------------- C18 ---------------------------------- *)

\* what the path held before the sink was constructed (nothing when absent)
Before(h) == IF initial[h].exists THEN initial[h].bytes ELSE <<>>

\* C18 as stated: a sink constructed on a file holding P leaves, after any
\* N accept calls, P ++ c1 ++ ... ++ cN in the file.
C18_AnyCalls ==
    \A h \in Handles :
        (initial[h].exists /\ sink[h] \in {"open", "closed"})
            => file[h].bytes = initial[h].bytes \o Concat(streamed[h])

\* C18 (amended): constructing a sink never truncates or overwrites what the
\* file held: P stays the first Len(P) bytes of the file whatever the accept
\* calls do; after N accept calls that all returned success the file holds
\* P ++ c1 ++ ... ++ cN; a sink constructed on an absent path creates an
\* empty file; a construction that failed leaves the path as it was.
C18_NeverTruncates ==
    \A h \in Handles :
        /\ sink[h] \in {"open", "closed"} =>
              /\ file[h].exists
              /\ Len(file[h].bytes) >= Len(Before(h))
              /\ SubSeq(file[h].bytes, 1, Len(Before(h))) = Before(h)
              /\ AllWritesOk(h) => file[h].bytes = Before(h) \o Concat(streamed[h])
              /\ streamed[h] = <<>> => file[h].bytes = Before(h)
        /\ sink[h] \in {"none", "error"} => file[h] = initial[h]

\* a sink on a file that held 50 has accepted two chunks
C18_Witness ==
    /\ initial["h1"] = FileOf(<<80>>)
    /\ streamed["h1"] = <<<<65, 66>>, <<67>>>>
    /\ file["h1"].bytes = <<80, 65, 66, 67>>

(* ------------------------------- C19 ---------------------------------- *)

\* C19: in every Response perform returns the body is empty, however many
\* bytes were streamed to the sink, and the headers are the single entry
\* content-type with the value the transport reported when it reported one,
\* and no entry otherwise.
C19_EmptyBodyOneHeader ==
    \A h \in Handles :
        outcome[h].tag = "Response" =>
            /\ outcome[h].body = <<>>
            /\ reported[h].ct.ok
            /\ IF reported[h].ct.ct.some
               THEN /\ Len(outcome[h].headers) = 1
                    /\ outcome[h].headers[1].name = "content-type"
                    /\ outcome[h].headers[1].value = reported[h].ct.ct.text
               ELSE outcome[h].headers = <<>>

\* three bytes went to the sink and the Response carries the content type
C19_Witness ==
    /\ outcome["h1"].tag = "Response"
    /\ Len(Concat(streamed["h1"])) = 3
    /\ reported["h1"].ct.ct = SomeContentType(OctetStream)
    /\ outcome["h1"].body = <<>>

(* ------------------------------- C20 ---------------------------------- *)

\* the body options of an easy handle: the POST mark, the declared length
\* and the attached bytes
BodyOptions(e) == <<e.post, e.sizeSet, e.postFieldSize, e.bodySet, e.postFields>>

\* this step is the call request(r) on h
RequestStep(h) == phase[h] = "Build" /\ ~Requested(h) /\ Requested(h)'

\* C20: request() with method GET leaves the easy handle's POST mark,
\* declared body length and attached body as they were, whatever body the
\* request carries; request() with method POST that succeeds attaches bytes
\* equal to the request body; the bytes of the request passed are changed
\* by no step after the call.
C20_BodyFrame ==
    [][\A h \in Handles :
          /\ RequestStep(h) =>
              /\ req'[h].method = "GET" => BodyOptions(easy'[h]) = BodyOptions(easy[h])
              /\ (req'[h].method = "POST" /\ reqResult'[h].tag = "Ok")
                    => /\ easy'[h].bodySet
                       /\ easy'[h].postFields = req'[h].body
          /\ Requested(h) => req'[h] = req[h]]_vars

\* a GET carrying a body was configured and no body option is set
C20_Witness ==
    /\ req["h1"].method = "GET"
    /\ req["h1"].body = <<120, 121>>
    /\ reqResult["h1"].tag = "Ok"
    /\ BodyOptions(easy["h1"]) = BodyOptions(FreshEasy)

====
